---- MODULE Spec2Model ----
(***************************************************************************)
(* A model of todoist2org: the generation of Org mode headings from a      *)
(* Todoist 'Sync' state (projects, sections, items, labels).               *)
(*                                                                         *)
(* Python strings that the code inspects character by character (item      *)
(* content, descriptions) are sequences of one-character strings.  Ids,    *)
(* names and raw timestamps, which the code only compares or looks up,     *)
(* are TLA+ strings.  A generator function is the sequence of events       *)
(* (log, yield, raise) its body produces; the consumer's next() calls      *)
(* deliver them one heading at a time.                                     *)
(***************************************************************************)
EXTENDS Integers, Sequences, FiniteSets, TLC

VARIABLES
    state,             \* the Todoist 'Sync' API state dictionary
    include_archived,  \* the include_archived argument
    project_id,        \* the project_id argument of generate_project_headings
    call,              \* which generator function was called
    pc,                \* "idle", "running", "done" (StopIteration), "error"
    gen,               \* the suspended generator: the events it has yet to produce
    out,               \* the headings the consumer has received, in order
    log,               \* the warnings the root logger has received, in order
    err,               \* the exception that ended the run, or None
    md_text,           \* convert_markdown_to_org: the current content string
    md_prev,           \* convert_markdown_to_org: the argument of the last call
    md_calls,          \* convert_markdown_to_org: the number of calls made
    hl_args,           \* get_heading_lines: the arguments of the call
    hl_result          \* get_heading_lines: the lines yielded, or the exception

vars == <<state, include_archived, project_id, call, pc, gen, out, log, err,
          md_text, md_prev, md_calls, hl_args, hl_result>>

gen_vars == <<state, include_archived, project_id, call, pc, gen, out, log, err>>
md_vars == <<md_text, md_prev, md_calls>>
hl_vars == <<hl_args, hl_result>>

-----------------------------------------------------------------------------
(* Bounds of the model.                                                    *)

MaxProjects == 3     \* projects in the project-forest record sets
MaxItems == 3        \* items in the item-tree record sets
MaxOrder == 2        \* section_order and child_order range over 1..MaxOrder
MaxTokens == 4       \* tokens in a content string given to the converter

-----------------------------------------------------------------------------
(* Python values.                                                          *)

\* None where the alternative is a string (an id, a raw timestamp).
None == "None"

\* None where the alternative is a dictionary or an object.
NoneObj == [is_none |-> TRUE]

\* The result of a call: a returned value, or a raised exception.
Return(v) == [raised |-> FALSE, value |-> v]
Raise(e) == [raised |-> TRUE, error |-> e]

\* The events of a generator body.
Yield(h) == [ev |-> "yield", heading |-> h]
Warning(w) == [ev |-> "log", msg |-> w]
RaiseEv(e) == [ev |-> "raise", error |-> e]

\* A change made in place (list.sort, list.append) to the list object owner,
\* which leaves it with the elements value.
ListWrite(owner, value) == [ev |-> "write", owner |-> owner, value |-> value]

\* The list objects: a list the code built itself (a comprehension, a list it
\* appended to), a list of the record set, the labels list of an item.
Local == [list |-> "local"]
StateList(name) == [list |-> name]
ItemLabels(item) == [list |-> "item.labels", id |-> item.id]

\* Whether a generator body ended by raising.
Raised(events) == Len(events) > 0 /\ events[Len(events)].ev = "raise"

\* Statement sequencing: what follows a raise is not executed.
Then(first, rest) == IF Raised(first) THEN first ELSE first \o rest

RECURSIVE Concat(_)
Concat(seqs) == IF seqs = <<>> THEN <<>> ELSE Head(seqs) \o Concat(Tail(seqs))

\* The range of a sequence.
Range(s) == {s[i] : i \in 1..Len(s)}

\* [x for x in s if test(x)]: the elements of s whose index keep maps to TRUE,
\* in order.
RECURSIVE SelectIdx(_, _, _)
SelectIdx(s, keep, i) ==
    IF i > Len(s) THEN <<>>
    ELSE IF i \in keep THEN <<s[i]>> \o SelectIdx(s, keep, i + 1)
    ELSE SelectIdx(s, keep, i + 1)

Filter(s, keep) == SelectIdx(s, {i \in 1..Len(s) : keep[i]}, 1)

Min(S) == CHOOSE x \in S : \A y \in S : x <= y

\* s.sort(key=lambda x: x[key]): a stable sort, elements with equal keys keep
\* their order.
list_sort(s, key) ==
    LET n == Len(s)
        place(i) == 1 + Cardinality({j \in 1..n : \/ s[j][key] < s[i][key]
                                                  \/ /\ s[j][key] = s[i][key]
                                                     /\ j < i})
    IN [k \in 1..n |-> s[CHOOSE i \in 1..n : place(i) = k]]

\* {x[key]: x for x in s}: a later element replaces an earlier one with its key.
dict_by(s, key) ==
    [k \in {s[i][key] : i \in 1..Len(s)} |->
        s[CHOOSE i \in 1..Len(s) :
            /\ s[i][key] = k
            /\ \A j \in (i + 1)..Len(s) : s[j][key] # k]]

-----------------------------------------------------------------------------
(* convert_markdown_to_org: the pattern                                    *)
(*     (\[(?!\]).+?\])(\((?!\)).+?\))                                      *)
(* as Python's backtracking matcher applies it.                            *)

\* "." matches any character except a newline.
Dot(c) == c # "\n"

\* Group 2, \((?!\)).+?\), tried at index q: the index of the ")" that closes
\* it, or 0 when it does not match there.  The lazy .+? stops at the first ")"
\* after at least one character.
md_group2_end(text, q) ==
    IF q + 2 > Len(text) THEN 0
    ELSE IF text[q] # "(" \/ text[q + 1] = ")" \/ ~Dot(text[q + 1]) THEN 0
    ELSE LET ends == {e \in (q + 2)..Len(text) :
                         /\ text[e] = ")"
                         /\ \A i \in (q + 1)..(e - 1) : Dot(text[i])}
         IN IF ends = {} THEN 0 ELSE Min(ends)

\* The whole pattern tried at index s.  Group 1, \[(?!\]).+?\], is extended one
\* character at a time until a "]" is reached after which group 2 matches.
md_match_at(text, s) ==
    IF s + 2 > Len(text) THEN NoneObj
    ELSE IF text[s] # "[" \/ text[s + 1] = "]" \/ ~Dot(text[s + 1]) THEN NoneObj
    ELSE LET closers == {c \in (s + 2)..Len(text) :
                            /\ text[c] = "]"
                            /\ \A i \in (s + 1)..(c - 1) : Dot(text[i])
                            /\ md_group2_end(text, c + 1) # 0}
         IN IF closers = {} THEN NoneObj
            ELSE LET c == Min(closers)
                 IN [start |-> s, close1 |-> c, end |-> md_group2_end(text, c + 1)]

\* The leftmost match that starts at or after index from.
md_search(text, from) ==
    LET starts == {s \in from..Len(text) : md_match_at(text, s) # NoneObj}
    IN IF starts = {} THEN NoneObj ELSE md_match_at(text, Min(starts))

\* md_hyperlink_p.finditer(content): the non-overlapping matches, left to right.
RECURSIVE re_finditer(_, _)
re_finditer(text, from) ==
    LET m == md_search(text, from)
    IN IF m = NoneObj THEN <<>> ELSE <<m>> \o re_finditer(text, m.end + 1)

match_group0(text, m) == SubSeq(text, m.start, m.end)
match_link_text(text, m) == SubSeq(text, m.start + 1, m.close1 - 1)
match_linkurl(text, m) == SubSeq(text, m.close1 + 2, m.end - 1)

\* "[[%s][%s]]" % (linkurl, link_text)
org_hyperlink(linkurl, link_text) ==
    <<"[", "[">> \o linkurl \o <<"]", "[">> \o link_text \o <<"]", "]">>

\* str.replace(old, new): every non-overlapping occurrence of old, left to right.
RECURSIVE str_replace_from(_, _, _, _)
str_replace_from(s, old, new, i) ==
    IF i > Len(s) THEN <<>>
    ELSE IF i + Len(old) - 1 <= Len(s) /\ SubSeq(s, i, i + Len(old) - 1) = old
    THEN new \o str_replace_from(s, old, new, i + Len(old))
    ELSE <<s[i]>> \o str_replace_from(s, old, new, i + 1)

str_replace(s, old, new) == str_replace_from(s, old, new, 1)

\* The body of the for loop: the matches are those of the original string, the
\* replacement is made in the string as converted so far.
RECURSIVE md_replace_matches(_, _, _)
md_replace_matches(content, original, matches) ==
    IF matches = <<>> THEN content
    ELSE LET match == Head(matches)
             replaced == str_replace(content, match_group0(original, match),
                             org_hyperlink(match_linkurl(original, match),
                                           match_link_text(original, match)))
         IN md_replace_matches(replaced, original, Tail(matches))

convert_markdown_to_org(content) ==
    md_replace_matches(content, content, re_finditer(content, 1))

-----------------------------------------------------------------------------
(* get_org_timestamp.  A raw timestamp is one of the strings below; what    *)
(* dateutil and pytz make of it is tabulated.  The Org timestamp keeps the  *)
(* parts the format string is built from.                                  *)

DateOnly == "2024-05-05"
DateTime == "2024-05-05T10:00:00Z"
NotADate == "not a date"
RawTimestamps == {DateOnly, DateTime, NotADate}

UserTimezone == "Pacific/Auckland"
DueTimezone == "Europe/Paris"
KnownTimezones == {UserTimezone, DueTimezone}

\* date_parser.parse(timestamp)
date_parser_parse(timestamp) ==
    IF timestamp \in {DateOnly, DateTime} THEN Return(timestamp)
    ELSE Raise("ParserError")

\* pytz.timezone(timezone)
pytz_timezone(timezone) ==
    IF timezone \in KnownTimezones THEN Return(timezone)
    ELSE Raise("UnknownTimeZoneError")

\* "T" in timestamp
ContainsT(timestamp) == timestamp = DateTime

get_org_timestamp(timestamp, timezone, active) ==
    LET dateobj == date_parser_parse(timestamp)
        tz == pytz_timezone(timezone)
    IN IF dateobj.raised THEN dateobj
       ELSE IF tz.raised THEN tz
       ELSE Return([open |-> IF active THEN "<" ELSE "[",
                    date |-> dateobj.value,
                    tz |-> tz.value,
                    time |-> ContainsT(timestamp),
                    close |-> IF active THEN ">" ELSE "]"])

-----------------------------------------------------------------------------
(* HeadingTimestamps and get_heading_lines.                                *)

\* HeadingTimestamps(closed, scheduled, deadline); an unset timestamp is NoneObj.
HeadingTimestamps(closed, scheduled, deadline) ==
    [closed |-> closed, scheduled |-> scheduled, deadline |-> deadline]

\* Mutant: __bool__ looks at closed and scheduled only.
HeadingTimestamps_bool_no_deadline(timestamps) ==
    /\ timestamps # NoneObj
    /\ \/ timestamps.closed # NoneObj
       \/ timestamps.scheduled # NoneObj

\* HeadingTimestamps.__bool__; the timestamps argument may also be None.
HeadingTimestamps_bool(timestamps) ==
    /\ timestamps # NoneObj
    /\ \/ timestamps.closed # NoneObj
       \/ timestamps.scheduled # NoneObj
       \/ timestamps.deadline # NoneObj

\* The priority_str dictionary.
PriorityStr == [p \in 1..4 |-> CASE p = 4 -> "[#A] "
                                  [] p = 3 -> "[#B] "
                                  [] p = 2 -> "[#C] "
                                  [] OTHER -> ""]

\* str.split("\n")
RECURSIVE str_split_lines(_)
str_split_lines(text) ==
    LET breaks == {i \in 1..Len(text) : text[i] = "\n"}
    IN IF breaks = {} THEN <<text>>
       ELSE <<SubSeq(text, 1, Min(breaks) - 1)>>
            \o str_split_lines(SubSeq(text, Min(breaks) + 1, Len(text)))

\* The CLOSED/SCHEDULED/DEADLINE line: the entries that are set, in this order.
timestamps_list(timestamps) ==
    (IF timestamps.closed # NoneObj
        THEN <<[label |-> "CLOSED: ", at |-> timestamps.closed]>> ELSE <<>>)
    \o (IF timestamps.scheduled # NoneObj
        THEN <<[label |-> "SCHEDULED: ", at |-> timestamps.scheduled]>> ELSE <<>>)
    \o (IF timestamps.deadline # NoneObj
        THEN <<[label |-> "DEADLINE: ", at |-> timestamps.deadline]>> ELSE <<>>)

\* The lines of one heading, in the order they are yielded.  properties is the
\* sequence of the keyword arguments, <<name, value>>, in the order given.
get_heading_lines(heading_level, todo_state, content, priority, tags, timestamps, description, properties) ==
    IF priority \notin DOMAIN PriorityStr THEN Raise("KeyError")
    ELSE
    LET first_line ==
            <<[line |-> "heading",
               stars |-> heading_level,
               todo_state_str |-> IF todo_state # "" THEN <<todo_state, " ">>
                                  ELSE <<>>,
               priority_str |-> PriorityStr[priority],
               content |-> content,
               tags_str |-> IF tags # <<>> THEN tags ELSE <<>>]>>
        timestamp_line ==
            IF HeadingTimestamps_bool(timestamps)
            THEN <<[line |-> "timestamps",
                    spaces |-> heading_level,
                    entries |-> timestamps_list(timestamps)]>>
            ELSE <<>>
        property_lines ==
            IF properties # <<>>
            THEN <<[line |-> ":PROPERTIES:", spaces |-> heading_level]>>
                 \o [i \in 1..Len(properties) |->
                        [line |-> "property", spaces |-> heading_level,
                         name |-> properties[i][1], value |-> properties[i][2]]]
                 \o <<[line |-> ":END:", spaces |-> heading_level]>>
            ELSE <<>>
        description_lines ==
            IF description # <<>>
            THEN LET lines == str_split_lines(description)
                 IN [i \in 1..Len(lines) |->
                        IF lines[i] = <<>> THEN [line |-> "empty"]
                        ELSE [line |-> "description", spaces |-> heading_level,
                              text |-> lines[i]]]
            ELSE <<>>
    IN Return(first_line \o timestamp_line \o property_lines \o description_lines)

\* "\n".join(get_heading_lines(...)) + "\n": the heading string, kept as its
\* lines.  obj names the record the heading was rendered for; it is not part of
\* the text.
Heading(kind, id, lines) == [obj |-> <<kind, id>>, lines |-> lines]

get_project_root_heading(project, heading_level) ==
    LET tags == IF project.is_archived THEN <<"ARCHIVED">> ELSE <<>>
        project_name == project.name
        lines == get_heading_lines(heading_level, "", project_name, 1, tags,
                                   NoneObj, <<>>,
                                   <<<<"CATEGORY", project_name>>>>)
    IN IF lines.raised THEN lines
       ELSE Return(Heading("project", project.id, lines.value))

get_section_heading(st, section, heading_level) ==
    LET user_tz == st.user.tz_info.timezone
        added_at_timestamp == get_org_timestamp(section.added_at, user_tz, FALSE)
        tags == IF section.is_archived THEN <<"ARCHIVED">> ELSE <<>>
    IN IF added_at_timestamp.raised THEN added_at_timestamp
       ELSE LET lines == get_heading_lines(heading_level, "", section.name, 1,
                             tags, NoneObj, <<>>,
                             <<<<"CREATED", added_at_timestamp.value>>>>)
            IN IF lines.raised THEN lines
               ELSE Return(Heading("section", section.id, lines.value))

-----------------------------------------------------------------------------
(* get_item_heading.                                                       *)

\* The tags of an item: its labels, looked up in the label dictionary and
\* ordered by item_order.  KeyError when a label is not a key of the dictionary.
item_label_tags(item, labels) ==
    IF \E i \in 1..Len(item.labels) : item.labels[i] \notin DOMAIN labels
    THEN Raise("KeyError")
    ELSE LET item_labels == list_sort([i \in 1..Len(item.labels) |->
                                          labels[item.labels[i]]], "item_order")
         IN Return([i \in 1..Len(item_labels) |-> item_labels[i].name])

\* item_labels: the list built by the comprehension of line 548.
item_labels_list(item) == Local

\* Mutant: tags is the item's own labels list.
tags_list_is_item_labels(item) == ItemLabels(item)

\* tags: the list built by the comprehension of line 550.
tags_list(item) == Local

\* The warning logged for one item with a recurring due date.
ItemWarning(item) ==
    [warning |-> "item", content |-> item.content, string |-> item.due.string]

\* The warning logged once for the whole run.
AggregateWarning == [warning |-> "aggregate"]

\* Mutant: every item is rendered as open.
item_todo_state_open(completed_at) == "TODO"

\* todo_state = "DONE" if completed_at else "TODO"
item_todo_state(completed_at) == IF completed_at # None THEN "DONE" ELSE "TODO"

\* Returns [log, writes, result]: the warnings logged during the call, the
\* lists it changed in place, and the heading returned or the exception raised.
get_item_heading(st, item, heading_level, labels) ==
    LET user_tz == st.user.tz_info.timezone
        added_at_timestamp == get_org_timestamp(item.added_at, user_tz, FALSE)
        completed_at == item.completed_at
        due_info == item.due
        priority == item.priority
        todo_state == item_todo_state(completed_at)
        content == convert_markdown_to_org(item.content)
        description == convert_markdown_to_org(item.description)
        label_tags == item_label_tags(item, labels)
        closed == IF completed_at # None
                  THEN get_org_timestamp(completed_at, user_tz, FALSE)
                  ELSE Return(NoneObj)
        is_recurring == due_info # NoneObj /\ due_info.is_recurring
        due_date_tz == IF due_info.timezone # None THEN due_info.timezone
                       ELSE user_tz
        scheduled == IF due_info # NoneObj
                     THEN get_org_timestamp(due_info.date, due_date_tz, TRUE)
                     ELSE Return(NoneObj)
        tags == IF is_recurring THEN Append(label_tags.value, "IS_RECURRING")
                ELSE label_tags.value
        warnings == IF is_recurring THEN <<ItemWarning(item)>> ELSE <<>>
        sorted == <<ListWrite(item_labels_list(item), label_tags.value)>>
        appended == IF is_recurring THEN <<ListWrite(tags_list(item), tags)>>
                    ELSE <<>>
    IN IF added_at_timestamp.raised
       THEN [log |-> <<>>, writes |-> <<>>, result |-> added_at_timestamp]
       ELSE IF label_tags.raised
       THEN [log |-> <<>>, writes |-> <<>>, result |-> label_tags]
       ELSE IF closed.raised
       THEN [log |-> <<>>, writes |-> sorted, result |-> closed]
       ELSE IF scheduled.raised
       THEN [log |-> warnings, writes |-> sorted \o appended, result |-> scheduled]
       ELSE LET timestamps == HeadingTimestamps(closed.value, scheduled.value,
                                                NoneObj)
                lines == get_heading_lines(heading_level, todo_state, content,
                             priority, tags, timestamps, description,
                             <<<<"CREATED", added_at_timestamp.value>>>>)
            IN [log |-> warnings,
                writes |-> sorted \o appended,
                result |-> IF lines.raised THEN lines
                           ELSE Return(Heading("item", item.id, lines.value))]

-----------------------------------------------------------------------------
(* The generator functions.  Each is the sequence of events its body       *)
(* produces when run to the end.                                           *)

\* Mutant: one aggregate warning for each item with a recurring due date.
warn_about_each_recurring_due_date(items) ==
    LET Recurring(item) == item.due # NoneObj /\ item.due.is_recurring
        recurring == Filter(items,
               [idx \in 1..Len(items) |-> Recurring(items[idx])])
    IN [k \in 1..Len(recurring) |-> Warning(AggregateWarning)]

\* _warn_about_recurring_due_dates(items)
warn_about_recurring_due_dates(items) ==
    LET any_recurring_due_dates ==
            \E i \in 1..Len(items) :
                items[i].due # NoneObj /\ items[i].due.is_recurring
    IN IF any_recurring_due_dates THEN <<Warning(AggregateWarning)>> ELSE <<>>

RECURSIVE get_object_level(_, _)

\* Mutant: the level of an object with a parent is that of its parent.
get_object_level_flat(object_id, objects) ==
    IF object_id \notin DOMAIN objects THEN Raise("KeyError")
    ELSE IF objects[object_id].parent_id = None THEN Return(1)
    ELSE get_object_level(objects[object_id].parent_id, objects)

get_object_level(object_id, objects) ==
    IF object_id \notin DOMAIN objects THEN Raise("KeyError")
    ELSE LET obj == objects[object_id]
             parent_id == obj.parent_id
         IN IF parent_id = None THEN Return(1)
            ELSE LET parent_level == get_object_level(parent_id, objects)
                 IN IF parent_level.raised THEN parent_level
                    ELSE Return(1 + parent_level.value)

\* Mutant: the children are rendered at their parent's level.
child_heading_level_same(heading_level) == heading_level

\* The level passed for the children of an item rendered at heading_level.
child_heading_level(heading_level) == heading_level + 1

\* The events of rendering one item: its warnings, then its heading or the
\* exception.
item_heading_events(st, item, heading_level, label_dict) ==
    LET h == get_item_heading(st, item, heading_level, label_dict)
        logged == [k \in 1..Len(h.log) |-> Warning(h.log[k])]
    IN IF h.result.raised THEN h.writes \o logged \o <<RaiseEv(h.result.error)>>
       ELSE h.writes \o logged \o <<Yield(h.result.value)>>

RECURSIVE generate_item_headings(_, _, _, _, _)
RECURSIVE item_headings_loop(_, _, _, _, _, _)

\* Mutant: the headings of all the items of the list come before those of their
\* children.
item_headings_loop_siblings_first(st, items, i, heading_level, item_children, label_dict) ==
    IF i > Len(items) THEN <<>>
    ELSE Then(item_heading_events(st, items[i], heading_level, label_dict),
         Then(item_headings_loop(st, items, i + 1, heading_level,
                                 item_children, label_dict),
              generate_item_headings(st, item_children[items[i].id],
                                     child_heading_level(heading_level),
                                     item_children, label_dict)))

\* Mutant: the children of an item are not rendered.
item_headings_loop_no_children(st, items, i, heading_level, item_children, label_dict) ==
    IF i > Len(items) THEN <<>>
    ELSE Then(item_heading_events(st, items[i], heading_level, label_dict),
              item_headings_loop(st, items, i + 1, heading_level,
                                 item_children, label_dict))

\* for item in items, from the i-th item on.
item_headings_loop(st, items, i, heading_level, item_children, label_dict) ==
    IF i > Len(items) THEN <<>>
    ELSE LET item == items[i]
             children == item_children[item.id]
         IN Then(item_heading_events(st, item, heading_level, label_dict),
            Then(generate_item_headings(st, children,
                                        child_heading_level(heading_level),
                                        item_children, label_dict),
                 item_headings_loop(st, items, i + 1, heading_level,
                                    item_children, label_dict)))

\* items, as generate_project_subheadings and generate_item_headings pass it: a
\* list built at lines 238-248 or by the caller's selection of top-level items.
items_list(items) == Local

\* Mutant: the items are not sorted by child_order.
generate_item_headings_unsorted(st, items, heading_level, item_children, label_dict) ==
    item_headings_loop(st, items, 1, heading_level, item_children, label_dict)

generate_item_headings(st, items, heading_level, item_children, label_dict) ==
    <<ListWrite(items_list(items), list_sort(items, "child_order"))>>
    \o item_headings_loop(st, list_sort(items, "child_order"), 1, heading_level,
                          item_children, label_dict)

\* The level of a section's heading, and of the "no section" group.
section_heading_level(section, project_level) ==
    IF section = NoneObj THEN project_level ELSE project_level + 1

\* Whether the loop over the sections skips this one.
section_skipped(section, inc_archived) ==
    section # NoneObj /\ ~inc_archived /\ section.is_archived

\* The top-level items handed to generate_item_headings for one section.
section_top_level_items(section_items) ==
    LET NoParent(item) == item.parent_id = None
    IN Filter(section_items,
           [idx \in 1..Len(section_items) |-> NoParent(section_items[idx])])

RECURSIVE section_loop(_, _, _, _, _, _, _, _)
\* for section in [None] + project_sections, from the i-th element on.
section_loop(st, sections, i, section_item_lists, item_children, project_level, label_dict, inc_archived) ==
    IF i > Len(sections) THEN <<>>
    ELSE LET section == sections[i]
             section_id == IF section = NoneObj THEN None ELSE section.id
             section_level == section_heading_level(section, project_level)
             rest == section_loop(st, sections, i + 1, section_item_lists,
                                  item_children, project_level, label_dict,
                                  inc_archived)
             heading == IF section = NoneObj THEN <<>>
                        ELSE LET h == get_section_heading(st, section,
                                                          section_level)
                             IN IF h.raised THEN <<RaiseEv(h.error)>>
                                ELSE <<Yield(h.value)>>
             items == section_top_level_items(section_item_lists[section_id])
         IN IF section_skipped(section, inc_archived) THEN rest
            ELSE Then(heading,
                 Then(generate_item_headings(st, items, section_level + 1,
                                             item_children, label_dict),
                      rest))

\* project_sections, as the two callers pass it: a list built at lines 123-130
\* or by the comprehension of lines 188-189.
project_sections_list(project_sections) == Local

generate_project_subheadings(st, project_items, project_sections, project_level, label_dict, inc_archived) ==
    LET sorted_sections == list_sort(project_sections, "section_order")
        section_ids == {sorted_sections[i].id : i \in 1..Len(sorted_sections)}
                       \cup {None}
        section_item_lists ==
            [sid \in section_ids |->
                LET InSection(item) == item.section_id = sid
                IN Filter(project_items,
                       [idx \in 1..Len(project_items) |-> InSection(project_items[idx])])]
        item_ids == {project_items[i].id : i \in 1..Len(project_items)}
        item_children ==
            [id \in item_ids |->
                LET ChildOf(item) == item.parent_id # None /\ item.parent_id = id
                IN Filter(project_items,
                       [idx \in 1..Len(project_items) |-> ChildOf(project_items[idx])])]
        sorted == <<ListWrite(project_sections_list(project_sections),
                              sorted_sections)>>
    IN IF \E i \in 1..Len(project_items) :
              project_items[i].section_id \notin section_ids
       THEN sorted \o <<RaiseEv("KeyError")>>
       ELSE IF \E i \in 1..Len(project_items) :
                  /\ project_items[i].parent_id # None
                  /\ project_items[i].parent_id \notin item_ids
       THEN sorted \o <<RaiseEv("KeyError")>>
       ELSE sorted \o section_loop(st, <<NoneObj>> \o sorted_sections, 1,
                         section_item_lists, item_children, project_level,
                         label_dict, inc_archived)

\* The events of one project: its heading, then its subheadings.
project_events(st, project, projects_dict, project_items, project_sections, label_dict, inc_archived) ==
    LET project_level == get_object_level(project.id, projects_dict)
    IN IF project_level.raised THEN <<RaiseEv(project_level.error)>>
       ELSE LET h == get_project_root_heading(project, project_level.value)
            IN IF h.raised THEN <<RaiseEv(h.error)>>
               ELSE Then(<<Yield(h.value)>>,
                         generate_project_subheadings(st, project_items,
                             project_sections, project_level.value, label_dict,
                             inc_archived))

\* Mutant: archived projects are never skipped.
project_skipped_never(project, inc_archived) == FALSE

\* Whether the loop over the projects skips this one.
project_skipped(project, inc_archived) == ~inc_archived /\ project.is_archived

\* The dictionary of a project id to the records (sections, items) of that
\* project; records of a project that is not in the state are left out.
list_dict(st, records) ==
    [pid \in {st.projects[i].id : i \in 1..Len(st.projects)} |->
        LET OfProject(r) == r.project_id = pid
        IN Filter(records,
               [idx \in 1..Len(records) |-> OfProject(records[idx])])]

\* The label dictionary of generate_all_headings.
all_headings_label_dict(st) == dict_by(st.labels, "name")

\* The label dictionary of generate_project_headings.
project_headings_label_dict(st) == dict_by(st.labels, "id")

RECURSIVE project_loop(_, _, _, _, _, _, _)
\* for project in state["projects"], from the i-th project on.
project_loop(st, i, projects_dict, section_list_dict, item_list_dict, label_dict, inc_archived) ==
    IF i > Len(st.projects) THEN <<>>
    ELSE LET project == st.projects[i]
             rest == project_loop(st, i + 1, projects_dict, section_list_dict,
                                  item_list_dict, label_dict, inc_archived)
         IN IF project_skipped(project, inc_archived) THEN rest
            ELSE Then(project_events(st, project, projects_dict,
                                     item_list_dict[project.id],
                                     section_list_dict[project.id],
                                     label_dict, inc_archived),
                      rest)

generate_all_headings(st, inc_archived) ==
    LET projects_dict == dict_by(st.projects, "id")
        section_list_dict == list_dict(st, st.sections)
        item_list_dict == list_dict(st, st.items)
        label_dict == all_headings_label_dict(st)
    IN Then(warn_about_recurring_due_dates(st.items),
            project_loop(st, 1, projects_dict, section_list_dict,
                         item_list_dict, label_dict, inc_archived))

generate_project_headings(st, pid, inc_archived) ==
    LET projects_dict == dict_by(st.projects, "id")
        OfProject(r) == r.project_id = pid
        project_sections == Filter(st.sections,
               [idx \in 1..Len(st.sections) |-> OfProject(st.sections[idx])])
        project_items == Filter(st.items,
               [idx \in 1..Len(st.items) |-> OfProject(st.items[idx])])
        label_dict == project_headings_label_dict(st)
    IN Then(warn_about_recurring_due_dates(project_items),
            IF pid \notin DOMAIN projects_dict THEN <<RaiseEv("KeyError")>>
            ELSE project_events(st, projects_dict[pid], projects_dict,
                                project_items, project_sections, label_dict,
                                inc_archived))

-----------------------------------------------------------------------------
(* The record sets the model is run on.                                    *)

\* The id of a record that is not in the state (a deleted project, a section
\* or an item that was not synced).
MissingId == "404"

Id(k) == ToString(k)

Project(id, parent_id, is_archived) ==
    [id |-> id, name |-> <<"Project", id>>, parent_id |-> parent_id,
     is_archived |-> is_archived]

Section(id, pid, section_order, is_archived) ==
    [id |-> id, project_id |-> pid, section_order |-> section_order,
     added_at |-> DateTime, is_archived |-> is_archived,
     name |-> <<"Section", id>>]

\* An open item with no due date, no labels and no priority.
PlainItem(id, pid, section_id, parent_id, child_order) ==
    [id |-> id, project_id |-> pid, section_id |-> section_id,
     parent_id |-> parent_id, child_order |-> child_order,
     content |-> <<"m", "i", "l", "k">>, description |-> <<>>, priority |-> 1,
     completed_at |-> None, added_at |-> DateOnly, due |-> NoneObj,
     labels |-> <<>>]

Due(date, timezone, is_recurring) ==
    [date |-> date, timezone |-> timezone, is_recurring |-> is_recurring,
     string |-> IF is_recurring THEN "every friday" ELSE "5 May"]

Labels ==
    <<[id |-> "L1", name |-> "home", item_order |-> 2],
      [id |-> "L2", name |-> "work", item_order |-> 1]>>

User == [full_name |-> "User", tz_info |-> [timezone |-> UserTimezone]]

State(projects, sections, items) ==
    [projects |-> projects, sections |-> sections, items |-> items,
     labels |-> Labels, user |-> User]

\* The permutations of 1..n, as sequences.
Permutations1(n) ==
    {f \in [1..n -> 1..n] : \A i, j \in 1..n : i # j => f[i] # f[j]}

\* Project forests: MaxProjects projects in any list order, each archived or
\* not; the parent of a project is None or a project with a smaller id (the
\* chains are acyclic), and the first project's parent may be a deleted
\* project.  One section and one item hang under project 1, one item under the
\* last project, and one archived section and one item belong to a deleted
\* project.
ForestStates ==
    LET n == MaxProjects
        Parents(k) == {None} \cup {Id(j) : j \in 1..(k - 1)}
                      \cup (IF k = 1 THEN {MissingId} ELSE {})
    IN {State([i \in 1..n |-> Project(Id(order[i]), parent[order[i]],
                                      order[i] \in archived)],
              <<Section(Id(1), Id(1), 1, FALSE),
                Section(Id(2), MissingId, 1, TRUE)>>,
              <<PlainItem(Id(1), Id(n), None, None, 1),
                PlainItem(Id(2), Id(1), Id(1), None, 1),
                PlainItem(Id(3), MissingId, None, None, 1)>>) :
           order \in Permutations1(n),
           parent \in {f \in [1..n -> {None, MissingId} \cup {Id(j) : j \in 1..n}] :
                          \A k \in 1..n : f[k] \in Parents(k)},
           archived \in SUBSET (1..n)}

\* Sections of one project: MaxItems items without parents, each in one of two
\* sections or in none, with any child_order; the sections in any relative
\* order, the first archived or not.
SectionStates ==
    LET n == MaxItems
    IN {State(<<Project(Id(1), None, FALSE)>>,
              <<Section(Id(1), Id(1), orders[1], archived1),
                Section(Id(2), Id(1), orders[2], FALSE)>>,
              [k \in 1..n |-> PlainItem(Id(k), Id(1), section[k], None,
                                        child_order[k])]) :
           orders \in {<<1, 2>>, <<2, 1>>, <<1, 1>>},
           archived1 \in BOOLEAN,
           section \in [1..n -> {None, Id(1), Id(2)}],
           child_order \in [1..n -> 1..MaxOrder]}

\* Item trees of one project: MaxItems items, each with no parent or any other
\* item as its parent (cycles included), in the project's one section or in
\* none, with any child_order; the section archived or not.
TreeStates ==
    LET n == MaxItems
    IN {State(<<Project(Id(1), None, FALSE)>>,
              <<Section(Id(1), Id(1), 1, archived1)>>,
              [k \in 1..n |-> PlainItem(Id(k), Id(1), section[k], parent[k],
                                        child_order[k])]) :
           archived1 \in BOOLEAN,
           section \in [1..n -> {None, Id(1)}],
           parent \in {f \in [1..n -> {None} \cup {Id(j) : j \in 1..n}] :
                          \A k \in 1..n : f[k] # Id(k)},
           child_order \in [1..n -> 1..MaxOrder]}

\* Item attributes: one project with two top-level items.  The first item
\* takes every combination of completion, due date, labels and priority below,
\* with a plain content and no description or with a link in its content and
\* a description of several lines; the second is open with no due date, or
\* completed with a recurring due date.
LinkContent == <<"S", "e", "e", " ", "[", "d", "]", "(", "u", ")">>
TwoLineDescription == <<"a", "\n", "\n", "b">>

AttrStates ==
    {State(<<Project(Id(1), None, FALSE)>>, <<>>,
           <<[PlainItem(Id(1), Id(1), None, None, 1) EXCEPT
                 !.completed_at = completed_at, !.due = due,
                 !.labels = labels, !.priority = priority,
                 !.content = text[1], !.description = text[2]],
             [PlainItem(Id(2), Id(1), None, None, 2) EXCEPT
                 !.completed_at = second[1], !.due = second[2]]>>) :
        completed_at \in {None, DateTime, NotADate},
        due \in {NoneObj, Due(DateOnly, None, FALSE),
                 Due(DateTime, DueTimezone, TRUE), Due(NotADate, None, TRUE)},
        labels \in {<<>>, <<"work">>, <<"home", "work">>, <<"gone">>},
        priority \in {1, 4, 5},
        text \in {<<<<"m", "i", "l", "k">>, <<>>>>,
                  <<LinkContent, TwoLineDescription>>},
        second \in {<<None, NoneObj>>,
                    <<DateOnly, Due(DateOnly, None, TRUE)>>}}

\* Unresolved references inside one project: a project with an archived
\* section and an archived project, and two items, the second with a section_id
\* or a parent_id that may not be in its project.
DanglingStates ==
    {State(<<Project(Id(1), None, FALSE), Project(Id(2), None, TRUE)>>,
           <<Section(Id(1), Id(1), 1, TRUE)>>,
           <<PlainItem(Id(1), Id(1), None, None, 1),
             PlainItem(Id(2), pid, section_id, parent_id, 1)>>) :
        pid \in {Id(1), Id(2)},
        section_id \in {None, Id(1), MissingId},
        parent_id \in {None, Id(1), MissingId}}

-----------------------------------------------------------------------------
(* The run of a generator: the call, then the consumer's next() calls.     *)

GenIdle ==
    /\ project_id = None
    /\ call = "none"
    /\ pc = "idle"
    /\ gen = <<>>
    /\ out = <<>>
    /\ log = <<>>
    /\ err = None

MdIdle ==
    /\ md_text = <<>>
    /\ md_prev = <<>>
    /\ md_calls = 0

HlIdle ==
    /\ hl_args = NoneObj
    /\ hl_result = NoneObj

Init ==
    /\ state \in ForestStates \cup SectionStates \cup TreeStates
                 \cup AttrStates \cup DanglingStates
    /\ include_archived \in BOOLEAN
    /\ GenIdle
    /\ MdIdle
    /\ HlIdle

\* generate_all_headings(state, include_archived) is called: nothing of its
\* body runs before the first next().
CallAll ==
    /\ pc = "idle"
    /\ call' = "all"
    /\ project_id' = None
    /\ gen' = generate_all_headings(state, include_archived)
    /\ pc' = "running"
    /\ UNCHANGED <<state, include_archived, out, log, err, md_vars, hl_vars>>

\* generate_project_headings(state, project_id, include_archived) is called.
CallProject ==
    /\ pc = "idle"
    /\ \E pid \in {state.projects[i].id : i \in 1..Len(state.projects)} :
          /\ project_id' = pid
          /\ gen' = generate_project_headings(state, pid, include_archived)
    /\ call' = "project"
    /\ pc' = "running"
    /\ UNCHANGED <<state, include_archived, out, log, err, md_vars, hl_vars>>

\* The index of the first event of the generator that is a yield or a raise,
\* or 0.
FirstStop(events) ==
    LET stops == {i \in 1..Len(events) : events[i].ev \notin {"log", "write"}}
    IN IF stops = {} THEN 0 ELSE Min(stops)

\* The warnings among the first n events.
Logged(events, n) ==
    LET at == SelectIdx(events, {i \in 1..n : events[i].ev = "log"}, 1)
    IN [i \in 1..Len(at) |-> at[i].msg]

\* The record set after one change in place.
apply_write(st, w) ==
    IF w.owner.list = "sections" THEN [st EXCEPT !.sections = w.value]
    ELSE IF w.owner.list = "items" THEN [st EXCEPT !.items = w.value]
    ELSE IF w.owner.list = "item.labels"
    THEN [st EXCEPT !.items =
             [i \in 1..Len(st.items) |->
                 IF st.items[i].id = w.owner.id
                 THEN [st.items[i] EXCEPT !.labels = w.value]
                 ELSE st.items[i]]]
    ELSE st

\* The record set after the changes in place among the first n events.
RECURSIVE Written(_, _, _)
Written(st, events, n) ==
    IF n = 0 THEN st
    ELSE LET before == Written(st, events, n - 1)
         IN IF events[n].ev = "write" THEN apply_write(before, events[n])
            ELSE before

\* next(): the body runs to its next yield.
NextHeading ==
    /\ pc = "running"
    /\ FirstStop(gen) # 0
    /\ gen[FirstStop(gen)].ev = "yield"
    /\ log' = log \o Logged(gen, FirstStop(gen) - 1)
    /\ out' = Append(out, gen[FirstStop(gen)].heading)
    /\ gen' = SubSeq(gen, FirstStop(gen) + 1, Len(gen))
    /\ state' = Written(state, gen, FirstStop(gen) - 1)
    /\ UNCHANGED <<include_archived, project_id, call, pc, err, md_vars, hl_vars>>

\* next(): the body runs until it raises.
NextRaise ==
    /\ pc = "running"
    /\ FirstStop(gen) # 0
    /\ gen[FirstStop(gen)].ev = "raise"
    /\ log' = log \o Logged(gen, FirstStop(gen) - 1)
    /\ err' = gen[FirstStop(gen)].error
    /\ gen' = <<>>
    /\ pc' = "error"
    /\ state' = Written(state, gen, FirstStop(gen) - 1)
    /\ UNCHANGED <<include_archived, project_id, call, out, md_vars, hl_vars>>

\* Mutant: the body never reaches its end, the last next() does not return.
NextStop_never_returns ==
    /\ pc = "running"
    /\ FirstStop(gen) = 0
    /\ UNCHANGED vars

\* next(): the body runs to its end (StopIteration).
NextStop ==
    /\ pc = "running"
    /\ FirstStop(gen) = 0
    /\ log' = log \o Logged(gen, Len(gen))
    /\ gen' = <<>>
    /\ pc' = "done"
    /\ state' = Written(state, gen, Len(gen))
    /\ UNCHANGED <<include_archived, project_id, call, out, err, md_vars, hl_vars>>

Next == CallAll \/ CallProject \/ NextHeading \/ NextRaise \/ NextStop

Spec == Init /\ [][Next]_vars

\* The consumer iterates over the generator (for heading in ...): it calls
\* next() again after every heading, until StopIteration or an exception.
\* The record sets that differ in their parent pointers: the project forests,
\* the item trees and cycles (with one child_order), the dangling references.
WalkStates ==
    ForestStates
    \cup {s \in TreeStates : \A k \in 1..Len(s.items) : s.items[k].child_order = 1}
    \cup DanglingStates

InitWalk ==
    /\ state \in WalkStates
    /\ include_archived \in BOOLEAN
    /\ GenIdle
    /\ MdIdle
    /\ HlIdle

FairSpec ==
    /\ InitWalk
    /\ [][Next]_vars
    /\ WF_vars(NextHeading) /\ WF_vars(NextRaise) /\ WF_vars(NextStop)

-----------------------------------------------------------------------------
(* convert_markdown_to_org applied to a content string, and again to its   *)
(* result.                                                                 *)

MaxCalls == 2

\* The pieces content strings are made of: the characters of the pattern, a
\* letter, a newline, and a whole markdown link.
Tokens == {<<"[">>, <<"]">>, <<"(">>, <<")">>, <<"a">>, <<"\n">>,
           <<"[", "a", "]", "(", "b", ")">>}

Texts == UNION {{Concat(t) : t \in [1..n -> Tokens]} : n \in 0..MaxTokens}

InitMd ==
    /\ md_text \in Texts
    /\ md_prev = <<>>
    /\ md_calls = 0
    /\ state = State(<<>>, <<>>, <<>>)
    /\ include_archived = FALSE
    /\ GenIdle
    /\ HlIdle

Convert ==
    /\ md_calls < MaxCalls
    /\ md_prev' = md_text
    /\ md_text' = convert_markdown_to_org(md_text)
    /\ md_calls' = md_calls + 1
    /\ UNCHANGED <<gen_vars, hl_vars>>

NextMd == Convert

SpecMd == InitMd /\ [][NextMd]_vars

-----------------------------------------------------------------------------
(* get_heading_lines called with arguments of every shape, and its lines   *)
(* collected.                                                              *)

MaxLevel == 2

\* Org timestamps as get_org_timestamp returns them.
OrgTimestamps ==
    {get_org_timestamp(DateTime, UserTimezone, FALSE).value,
     get_org_timestamp(DateOnly, DueTimezone, TRUE).value}

\* The timestamps argument: None, or a HeadingTimestamps with each of its
\* three timestamps set or left None.
TimestampsArgs ==
    {NoneObj} \cup
    {HeadingTimestamps(c, sch, d) : c \in {NoneObj} \cup OrgTimestamps,
                                    sch \in {NoneObj} \cup OrgTimestamps,
                                    d \in {NoneObj} \cup OrgTimestamps}

\* priority 5 is not a key of the priority dictionary.
HeadingLinesArgs ==
    [heading_level : 1..MaxLevel,
     todo_state : {"", "TODO"},
     content : {<<"m", "i", "l", "k">>},
     priority : {1, 4, 5},
     tags : {<<>>, <<"work">>},
     timestamps : TimestampsArgs,
     description : {<<>>, TwoLineDescription},
     properties : {<<>>,
                   <<<<"CREATED",
                       get_org_timestamp(DateOnly, UserTimezone, FALSE).value>>>>}]

InitLines ==
    /\ hl_args \in HeadingLinesArgs
    /\ hl_result = NoneObj
    /\ state = State(<<>>, <<>>, <<>>)
    /\ include_archived = FALSE
    /\ GenIdle
    /\ MdIdle

\* list(get_heading_lines(...)): the generator is run to its end.
GetHeadingLines ==
    /\ hl_result = NoneObj
    /\ hl_result' = get_heading_lines(hl_args.heading_level, hl_args.todo_state,
                        hl_args.content, hl_args.priority, hl_args.tags,
                        hl_args.timestamps, hl_args.description,
                        hl_args.properties)
    /\ UNCHANGED <<gen_vars, md_vars, hl_args>>

NextLines == GetHeadingLines

SpecLines == InitLines /\ [][NextLines]_vars

-----------------------------------------------------------------------------
(* What the claims below read from a run.                                  *)

Kind(h) == h.obj[1]
ObjId(h) == h.obj[2]
Level(h) == h.lines[1].stars
Tags(h) == Range(h.lines[1].tags_str)
TodoState(h) == h.lines[1].todo_state_str

\* The record of the state with this id (ids are unique within a list).
RecordOf(records, id) ==
    records[CHOOSE i \in 1..Len(records) : records[i].id = id]
ItemOf(h) == RecordOf(state.items, ObjId(h))
SectionOf(h) == RecordOf(state.sections, ObjId(h))
ProjectOf(h) == RecordOf(state.projects, ObjId(h))

\* The position of a record in its list of the state.
InputIndex(records, id) == CHOOSE i \in 1..Len(records) : records[i].id = id

\* The index in hs of the project heading that opens the block index i is in.
BlockStart(hs, i) ==
    LET starts == {j \in 1..i : Kind(hs[j]) = "project"}
    IN IF starts = {} THEN 0
       ELSE CHOOSE j \in starts : \A k \in starts : k <= j

\* The index in hs of the heading of an item of the block of index i, or 0.
ItemIndex(hs, i, id) ==
    LET at == {j \in 1..Len(hs) : /\ Kind(hs[j]) = "item"
                                  /\ ObjId(hs[j]) = id
                                  /\ BlockStart(hs, j) = BlockStart(hs, i)}
    IN IF at = {} THEN 0 ELSE Min(at)

ItemHeadings(hs) == {i \in 1..Len(hs) : Kind(hs[i]) = "item"}
SectionHeadings(hs) == {i \in 1..Len(hs) : Kind(hs[i]) = "section"}
ProjectHeadings(hs) == {i \in 1..Len(hs) : Kind(hs[i]) = "project"}

-----------------------------------------------------------------------------
(* C1: in the output of generate_all_headings, an item with no parent and   *)
(* no section is one level below its project's heading, an item with no     *)
(* parent and a section two levels below it, and an item with a parent one  *)
(* level below its parent's heading.                                        *)

C1_ItemLevels ==
    call = "all" =>
        \A i \in ItemHeadings(out) :
            LET item == ItemOf(out[i])
                project_level == Level(out[BlockStart(out, i)])
            IN /\ BlockStart(out, i) # 0
               /\ (item.parent_id = None /\ item.section_id = None)
                    => Level(out[i]) = project_level + 1
               /\ (item.parent_id = None /\ item.section_id # None)
                    => Level(out[i]) = project_level + 2
               /\ item.parent_id # None
                    => /\ ItemIndex(out, i, item.parent_id) \in 1..(i - 1)
                       /\ Level(out[i])
                            = Level(out[ItemIndex(out, i, item.parent_id)]) + 1

\* A finished run that rendered a sectioned item, its child and the child of
\* that child, four levels below the project.
C1_Witness ==
    /\ call = "all"
    /\ pc = "done"
    /\ \E i \in ItemHeadings(out) :
          /\ ItemOf(out[i]).parent_id # None
          /\ Level(out[i]) = Level(out[BlockStart(out, i)]) + 4

-----------------------------------------------------------------------------
(* C2: the headings of one project are a pre-order traversal: the project   *)
(* heading, then the unsectioned top-level items each followed at once by   *)
(* its whole subtree, then each section heading followed by the section's   *)
(* top-level items each followed at once by its whole subtree; no later     *)
(* sibling comes before the last descendant of an earlier one.              *)

\* The ids of the ancestors of an item: its parent, its parent's parent, ...
RECURSIVE AncestorsFrom(_, _, _)
AncestorsFrom(records, id, fuel) ==
    IF fuel = 0 \/ id = None \/ ~\E i \in 1..Len(records) : records[i].id = id
    THEN {}
    ELSE LET parent_id == RecordOf(records, id).parent_id
         IN IF parent_id = None THEN {}
            ELSE {parent_id} \cup AncestorsFrom(records, parent_id, fuel - 1)

ItemAncestors(id) == AncestorsFrom(state.items, id, Len(state.items))

\* The top-level item an item hangs under (itself when it has no parent).
RootItem(id) ==
    LET roots == {a \in ItemAncestors(id) \cup {id} :
                     RecordOf(state.items, a).parent_id = None}
    IN CHOOSE a \in roots : TRUE

\* The section heading that governs index i of hs: the last one before i in the
\* block of i, or 0 when none has been emitted in the block yet.
SectionBefore(hs, i) ==
    LET before == {j \in BlockStart(hs, i)..i : Kind(hs[j]) = "section"}
    IN IF before = {} THEN 0
       ELSE CHOOSE j \in before : \A k \in before : k <= j

C2_PreOrder ==
    call = "all" =>
        /\ out # <<>> => Kind(out[1]) = "project"
        \* every section and item heading lies in the block of its own project
        /\ \A i \in SectionHeadings(out) :
              SectionOf(out[i]).project_id = ObjId(out[BlockStart(out, i)])
        /\ \A i \in ItemHeadings(out) :
              LET item == ItemOf(out[i])
                  root == RecordOf(state.items, RootItem(item.id))
                  sec == SectionBefore(out, i)
              IN /\ item.project_id = ObjId(out[BlockStart(out, i)])
                 \* under no section heading, or under that of its root's section
                 /\ IF root.section_id = None THEN sec = 0
                    ELSE sec # 0 /\ ObjId(out[sec]) = root.section_id
                 \* between a parent and its child lie only the parent's descendants
                 /\ item.parent_id # None =>
                       LET p == ItemIndex(out, i, item.parent_id)
                       IN /\ p \in 1..(i - 1)
                          /\ \A k \in (p + 1)..(i - 1) :
                                /\ Kind(out[k]) = "item"
                                /\ item.parent_id \in ItemAncestors(ObjId(out[k]))
        \* a finished block holds the whole subtree of every item in it, and
        \* every top-level item of the project and of each section in it
        /\ pc = "done" =>
              /\ \A i \in ItemHeadings(out) :
                    \A k \in 1..Len(state.items) :
                       (/\ state.items[k].parent_id = ObjId(out[i])
                        /\ state.items[k].project_id = ItemOf(out[i]).project_id)
                           => ItemIndex(out, i, state.items[k].id) > i
              /\ \A i \in ProjectHeadings(out) \cup SectionHeadings(out) :
                    \A k \in 1..Len(state.items) :
                       (/\ state.items[k].parent_id = None
                        /\ state.items[k].project_id
                             = ObjId(out[BlockStart(out, i)])
                        /\ state.items[k].section_id
                             = (IF Kind(out[i]) = "project" THEN None
                                ELSE ObjId(out[i])))
                           => ItemIndex(out, i, state.items[k].id) > i

\* A finished run in which a top-level item with a child is followed by a later
\* sibling, under a section heading.
C2_Witness ==
    /\ call = "all"
    /\ pc = "done"
    /\ \E a, b, c \in ItemHeadings(out) :
          /\ a < b /\ b < c
          /\ ItemOf(out[b]).parent_id = ObjId(out[a])
          /\ ItemOf(out[a]).parent_id = None
          /\ ItemOf(out[c]).parent_id = None
          /\ ItemOf(out[c]).section_id = ItemOf(out[a]).section_id
          /\ SectionBefore(out, a) # 0

-----------------------------------------------------------------------------
(* C3: the sections of a project come out in non-decreasing section_order,  *)
(* the items with the same parent (the same section, when they have no      *)
(* parent) in non-decreasing child_order; equal keys keep their input order. *)

C3_SiblingOrder ==
    call = "all" =>
        /\ \A i, j \in SectionHeadings(out) :
              (i < j /\ BlockStart(out, i) = BlockStart(out, j)) =>
                 LET a == SectionOf(out[i])
                     b == SectionOf(out[j])
                 IN /\ a.section_order <= b.section_order
                    /\ a.section_order = b.section_order =>
                          InputIndex(state.sections, a.id)
                            < InputIndex(state.sections, b.id)
        /\ \A i, j \in ItemHeadings(out) :
              LET a == ItemOf(out[i])
                  b == ItemOf(out[j])
              IN (/\ i < j
                  /\ BlockStart(out, i) = BlockStart(out, j)
                  /\ a.parent_id = b.parent_id
                  /\ a.parent_id = None => a.section_id = b.section_id) =>
                     /\ a.child_order <= b.child_order
                     /\ a.child_order = b.child_order =>
                           InputIndex(state.items, a.id)
                             < InputIndex(state.items, b.id)

\* A finished run whose sections came out in the reverse of their input order,
\* with two sibling items of equal child_order and one moved before an earlier
\* item of the input.
C3_Witness ==
    /\ call = "all"
    /\ pc = "done"
    /\ \E i, j \in SectionHeadings(out) :
          /\ i < j
          /\ InputIndex(state.sections, ObjId(out[j]))
               < InputIndex(state.sections, ObjId(out[i]))
    /\ \E i, j, k \in ItemHeadings(out) :
          /\ i < j /\ j < k
          /\ ItemOf(out[i]).section_id = ItemOf(out[j]).section_id
          /\ ItemOf(out[j]).section_id = ItemOf(out[k]).section_id
          /\ ItemOf(out[i]).child_order < ItemOf(out[j]).child_order
          /\ ItemOf(out[j]).child_order = ItemOf(out[k]).child_order
          /\ InputIndex(state.items, ObjId(out[j])) < InputIndex(state.items, ObjId(out[i]))

-----------------------------------------------------------------------------
(* C4: with include_archived false no archived project or section has a     *)
(* heading; with include_archived true every archived project and archived  *)
(* section has a heading, tagged ARCHIVED; the heading of a project or      *)
(* section that is not archived never has the tag.                          *)

ProjectIds == {state.projects[i].id : i \in 1..Len(state.projects)}

HasHeading(kind, id) ==
    \E i \in 1..Len(out) : Kind(out[i]) = kind /\ ObjId(out[i]) = id

ArchivedAbsentAndTagged ==
    /\ ~include_archived =>
          /\ \A i \in ProjectHeadings(out) : ~ProjectOf(out[i]).is_archived
          /\ \A i \in SectionHeadings(out) : ~SectionOf(out[i]).is_archived
    /\ \A i \in ProjectHeadings(out) :
          "ARCHIVED" \in Tags(out[i]) <=> ProjectOf(out[i]).is_archived
    /\ \A i \in SectionHeadings(out) :
          "ARCHIVED" \in Tags(out[i]) <=> SectionOf(out[i]).is_archived

\* C4 as stated: once the run is finished, every archived section of the state
\* has a heading.
C4_Original ==
    call = "all" =>
        /\ ArchivedAbsentAndTagged
        /\ (include_archived /\ pc = "done") =>
              /\ \A i \in 1..Len(state.projects) :
                    state.projects[i].is_archived
                        => HasHeading("project", state.projects[i].id)
              /\ \A i \in 1..Len(state.sections) :
                    state.sections[i].is_archived
                        => HasHeading("section", state.sections[i].id)

\* C4 as amended: the archived sections that have a heading are those of the
\* projects of the state; a section of a deleted project is skipped.
C4_Archived ==
    call = "all" =>
        /\ ArchivedAbsentAndTagged
        /\ (include_archived /\ pc = "done") =>
              /\ \A i \in 1..Len(state.projects) :
                    state.projects[i].is_archived
                        => HasHeading("project", state.projects[i].id)
              /\ \A i \in 1..Len(state.sections) :
                    (/\ state.sections[i].is_archived
                     /\ state.sections[i].project_id \in ProjectIds)
                        => HasHeading("section", state.sections[i].id)

\* A finished run with include_archived true that rendered an archived project
\* and an archived section, both tagged.
C4_Witness ==
    /\ call = "all"
    /\ pc = "done"
    /\ include_archived
    /\ \E i \in ProjectHeadings(out) :
          ProjectOf(out[i]).is_archived /\ "ARCHIVED" \in Tags(out[i])
    /\ \E i \in SectionHeadings(out) :
          SectionOf(out[i]).is_archived /\ "ARCHIVED" \in Tags(out[i])

-----------------------------------------------------------------------------
(* C5: for every project p that generate_all_headings emits,                *)
(* generate_project_headings(state, p, include_archived) yields the heading *)
(* sequence, or the failure, of the block generate_all_headings yields for  *)
(* p.                                                                       *)

\* The headings a generator body yields, and the exception it ends with.
Yielded(events) ==
    LET at == SelectIdx(events, {i \in 1..Len(events) : events[i].ev = "yield"}, 1)
    IN [i \in 1..Len(at) |-> at[i].heading]
Failure(events) == IF Raised(events) THEN events[Len(events)].error ELSE None

\* The events of the body of generate_all_headings' loop for project pid: the
\* block it yields for the project, and the exception raised in it, if any.
AllHeadingsBlock(pid) ==
    project_events(state, RecordOf(state.projects, pid),
                   dict_by(state.projects, "id"),
                   list_dict(state, state.items)[pid],
                   list_dict(state, state.sections)[pid],
                   all_headings_label_dict(state), include_archived)

\* Whether a run of generate_all_headings yields the heading of project pid.
EmittedByAllHeadings(pid) ==
    LET hs == Yielded(generate_all_headings(state, include_archived))
    IN \E i \in 1..Len(hs) : Kind(hs[i]) = "project" /\ ObjId(hs[i]) = pid

C5_SameAsAllHeadings ==
    (/\ call = "project"
     /\ pc \in {"done", "error"}
     /\ EmittedByAllHeadings(project_id)) =>
        /\ out = Yielded(AllHeadingsBlock(project_id))
        /\ err = Failure(AllHeadingsBlock(project_id))

-----------------------------------------------------------------------------
(* C6: on an acyclic project forest in which every parent_id resolves,      *)
(* get_object_level returns 1 + the number of ancestors of the project, 1   *)
(* exactly for the projects with no parent; it fails with a lookup error    *)
(* when an id of the parent chain is not in the index.                      *)

ProjectAncestors(id) == AncestorsFrom(state.projects, id, Len(state.projects))

\* Whether the parent chain of a project leaves the index.
ChainLeavesIndex(id) ==
    \E a \in ProjectAncestors(id) \cup {id} :
        LET parent_id == RecordOf(state.projects, a).parent_id
        IN parent_id # None /\ parent_id \notin ProjectIds

C6_ObjectLevel ==
    /\ \A i \in 1..Len(state.projects) :
          LET p == state.projects[i]
              level == get_object_level(p.id, dict_by(state.projects, "id"))
          IN IF ChainLeavesIndex(p.id)
             THEN level.raised /\ level.error = "KeyError"
             ELSE /\ ~level.raised
                  /\ level.value = 1 + Cardinality(ProjectAncestors(p.id))
                  /\ level.value = 1 <=> p.parent_id = None
    \* the level a run renders a project at, and the error it ends with
    /\ \A i \in ProjectHeadings(out) :
          Level(out[i]) = 1 + Cardinality(ProjectAncestors(ObjId(out[i])))
    /\ (call = "project" /\ pc \in {"done", "error"}) =>
          (ChainLeavesIndex(project_id) <=> (out = <<>> /\ err = "KeyError"))

\* A run that rendered a project with two ancestors at level 3.
C6_Witness ==
    /\ pc = "done"
    /\ \E i \in ProjectHeadings(out) :
          /\ Level(out[i]) = 3
          /\ Cardinality(ProjectAncestors(ObjId(out[i]))) = 2

-----------------------------------------------------------------------------
(* C7: get_item_heading renders state DONE and a timestamp line with a      *)
(* CLOSED: entry when the item's completed_at is not null, and state TODO   *)
(* with no CLOSED: entry when it is null.                                   *)

\* The labels of the entries of the timestamp line of a heading.
TimestampLabels(h) ==
    UNION {{h.lines[k].entries[e].label : e \in 1..Len(h.lines[k].entries)} :
              k \in {k \in 1..Len(h.lines) : h.lines[k].line = "timestamps"}}

C7_DoneIffClosed ==
    \A i \in ItemHeadings(out) :
        LET item == ItemOf(out[i])
        IN /\ item.completed_at # None =>
                 /\ TodoState(out[i]) = <<"DONE", " ">>
                 /\ "CLOSED: " \in TimestampLabels(out[i])
           /\ item.completed_at = None =>
                 /\ TodoState(out[i]) = <<"TODO", " ">>
                 /\ "CLOSED: " \notin TimestampLabels(out[i])
           /\ "CLOSED: " \in TimestampLabels(out[i])
                 <=> TodoState(out[i]) = <<"DONE", " ">>

\* A run that rendered a completed item with a due date, and an open one that
\* has a timestamp line for its due date only.
C7_Witness ==
    \E i, j \in ItemHeadings(out) :
        /\ ItemOf(out[i]).completed_at # None
        /\ TimestampLabels(out[i]) = {"CLOSED: ", "SCHEDULED: "}
        /\ ItemOf(out[j]).completed_at = None
        /\ TimestampLabels(out[j]) = {"SCHEDULED: "}

-----------------------------------------------------------------------------
(* C8: in a run of generate_all_headings the aggregate warning is logged    *)
(* once if an item of the state has a recurring due date and never          *)
(* otherwise, before the first heading is yielded, and it is not part of    *)
(* the yielded sequence; every heading rendered for an item with a          *)
(* recurring due date has the tag IS_RECURRING and logs one more warning.   *)

AnyRecurring ==
    \E k \in 1..Len(state.items) :
        state.items[k].due # NoneObj /\ state.items[k].due.is_recurring

AggregateLogged == {k \in 1..Len(log) : log[k].warning = "aggregate"}
ItemLogged == {k \in 1..Len(log) : log[k].warning = "item"}

RecurringRendered ==
    {i \in ItemHeadings(out) :
        ItemOf(out[i]).due # NoneObj /\ ItemOf(out[i]).due.is_recurring}

\* Whether the first next() of the run has been made.
Started == out # <<>> \/ pc \in {"done", "error"}

C8_RecurringWarnings ==
    call = "all" =>
        /\ ~Started => log = <<>>
        /\ Started => AggregateLogged = (IF AnyRecurring THEN {1} ELSE {})
        /\ \A i \in 1..Len(out) : DOMAIN out[i] = {"obj", "lines"}
        /\ \A i \in ItemHeadings(out) :
              "IS_RECURRING" \in Tags(out[i]) <=> i \in RecurringRendered
        \* one warning per rendered heading, in the order of the headings; a
        \* run that failed may have logged the warning of the heading that
        \* was not rendered
        /\ Cardinality(ItemLogged) \in
              {Cardinality(RecurringRendered)}
              \cup (IF pc = "error" THEN {Cardinality(RecurringRendered) + 1}
                    ELSE {})
        /\ \A i \in RecurringRendered :
              \E k \in ItemLogged :
                 /\ log[k] = ItemWarning(ItemOf(out[i]))
                 /\ Cardinality({m \in ItemLogged : m <= k})
                      = Cardinality({j \in RecurringRendered : j <= i})

\* A finished run that rendered two items with recurring due dates: the
\* aggregate warning, then one warning for each.
C8_Witness ==
    /\ call = "all"
    /\ pc = "done"
    /\ Cardinality(RecurringRendered) = 2
    /\ Len(log) = 3
    /\ AggregateLogged = {1}

-----------------------------------------------------------------------------
(* C9: convert_markdown_to_org is idempotent: converting a converted text   *)
(* again changes nothing.                                                   *)

C9_Idempotent == md_calls = 2 => md_text = md_prev

-----------------------------------------------------------------------------
(* C10: the result of convert_markdown_to_org is the input with each        *)
(* leftmost-first, non-overlapping match of [label](url) replaced, where it *)
(* stands, by [[url][label]] built from that match's own label and url;     *)
(* every character outside the matches is unchanged.                        *)

\* text from index from on, with the matches (in order) replaced in place.
RECURSIVE ReplacedInPlace(_, _, _)
ReplacedInPlace(text, matches, from) ==
    IF matches = <<>> THEN SubSeq(text, from, Len(text))
    ELSE LET m == Head(matches)
         IN SubSeq(text, from, m.start - 1)
            \o org_hyperlink(match_linkurl(text, m), match_link_text(text, m))
            \o ReplacedInPlace(text, Tail(matches), m.end + 1)

C10_MatchesReplacedInPlace ==
    md_calls >= 1 =>
        md_text = ReplacedInPlace(md_prev, re_finditer(md_prev, 1), 1)

-----------------------------------------------------------------------------
(* C11: when a run of generate_all_headings ends in a fatal error, no       *)
(* heading has been yielded to the consumer before the error is raised: a   *)
(* build delivers its complete output or nothing.                           *)

C11_NoPartialOutput == (call = "all" /\ pc = "error") => out = <<>>

-----------------------------------------------------------------------------
(* C12: a run of generate_all_headings or generate_project_headings,        *)
(* whether it completes or fails, leaves the record set unchanged: no step  *)
(* of the run changes state["projects"], state["sections"], state["items"], *)
(* state["labels"] or a field of one of their records, the in-place sorts   *)
(* and the tag append included.                                             *)

-----------------------------------------------------------------------------
(* C13: get_heading_lines emits the timestamp line if and only if at least  *)
(* one of closed, scheduled, deadline is set (never when timestamps is None *)
(* or all three are unset); the line holds exactly the entries that are     *)
(* set, in the order CLOSED:, SCHEDULED:, DEADLINE:, and it is the second   *)
(* line: directly after the first line and before every property and       *)
(* description line.                                                        *)

\* The timestamps of the call that are set, as label and value.
SetTimestamps ==
    IF hl_args.timestamps = NoneObj THEN {}
    ELSE {e \in {[label |-> "CLOSED: ", at |-> hl_args.timestamps.closed],
                 [label |-> "SCHEDULED: ", at |-> hl_args.timestamps.scheduled],
                 [label |-> "DEADLINE: ", at |-> hl_args.timestamps.deadline]} :
            e.at # NoneObj}

LabelRank(label) ==
    CASE label = "CLOSED: " -> 1 [] label = "SCHEDULED: " -> 2 [] OTHER -> 3

TimestampLines(lines) == {i \in 1..Len(lines) : lines[i].line = "timestamps"}

C13_TimestampLine ==
    (hl_result # NoneObj /\ ~hl_result.raised) =>
        LET lines == hl_result.value
        IN /\ lines[1].line = "heading"
           /\ TimestampLines(lines) = (IF SetTimestamps # {} THEN {2} ELSE {})
           /\ \A i \in TimestampLines(lines) :
                 LET entries == lines[i].entries
                 IN /\ Range(entries) = SetTimestamps
                    /\ Len(entries) = Cardinality(SetTimestamps)
                    /\ \A j, k \in 1..Len(entries) :
                          j < k => LabelRank(entries[j].label)
                                    < LabelRank(entries[k].label)

\* Reached: a call with all three timestamps set, a property and a
\* description.
C13_Witness ==
    /\ hl_result # NoneObj
    /\ ~hl_result.raised
    /\ Cardinality(SetTimestamps) = 3
    /\ Len(hl_result.value[2].entries) = 3
    /\ hl_args.properties # <<>>
    /\ hl_args.description # <<>>
    /\ Len(hl_result.value) > 5

-----------------------------------------------------------------------------
(* C14: for every record set whose references resolve within the owning     *)
(* project and whose item parent chains are acyclic, generate_all_headings  *)
(* with include_archived=true emits exactly one heading for every item      *)
(* whose project is in the project index; with include_archived=false no    *)
(* item is emitted more than once.                                          *)

\* The items whose project is in the project index.
IndexedItems ==
    {i \in 1..Len(state.items) : state.items[i].project_id \in ProjectIds}

\* Every section_id and parent_id of an item names a section or an item of the
\* item's project, every label of an item is a label of the state, and every
\* parent_id of a project names a project.
ReferencesResolve ==
    /\ \A i \in IndexedItems :
          LET item == state.items[i]
          IN /\ item.section_id # None =>
                   \E k \in 1..Len(state.sections) :
                       /\ state.sections[k].id = item.section_id
                       /\ state.sections[k].project_id = item.project_id
             /\ item.parent_id # None =>
                   \E k \in 1..Len(state.items) :
                       /\ state.items[k].id = item.parent_id
                       /\ state.items[k].project_id = item.project_id
             /\ \A k \in 1..Len(item.labels) :
                   \E l \in 1..Len(state.labels) :
                       state.labels[l].name = item.labels[k]
    /\ \A i \in 1..Len(state.projects) :
          state.projects[i].parent_id \in ProjectIds \cup {None}

ItemChainsAcyclic ==
    \A i \in 1..Len(state.items) :
        state.items[i].id \notin ItemAncestors(state.items[i].id)

\* The number of headings of the item among those delivered.
TimesEmitted(id) ==
    Cardinality({k \in ItemHeadings(out) : ObjId(out[k]) = id})

-----------------------------------------------------------------------------
(* C15: generate_all_headings terminates on every record set whose project  *)
(* parent chains are acyclic, record sets in which the parent_id pointers   *)
(* of items form a cycle included: a consumer that keeps calling next()     *)
(* receives finitely many headings and then StopIteration or an exception.  *)

-----------------------------------------------------------------------------
(* C16: in the output of generate_all_headings the nesting matches the      *)
(* project forest: for every emitted project with a parent project, the     *)
(* nearest preceding heading with a smaller level is the heading of its     *)
(* parent project, and the first emitted heading of every project tree has  *)
(* level 1, for every order of state["projects"] and every value of         *)
(* include_archived.                                                        *)

\* The root of the tree a project is in (the project itself when it has no
\* parent).
RootProject(id) ==
    LET roots == {a \in ProjectAncestors(id) \cup {id} :
                     /\ a \in ProjectIds
                     /\ RecordOf(state.projects, a).parent_id = None}
    IN CHOOSE a \in roots : TRUE

\* The headings before index i that have a smaller level than the i-th.
Shallower(hs, i) == {j \in 1..(i - 1) : Level(hs[j]) < Level(hs[i])}

C16_NestingMatchesForest ==
    call = "all" =>
        \A i \in ProjectHeadings(out) :
            LET project == ProjectOf(out[i])
                above == Shallower(out, i)
                first_of_tree ==
                    \A j \in ProjectHeadings(out) :
                        j < i => RootProject(ObjId(out[j])) # RootProject(project.id)
            IN /\ project.parent_id # None =>
                     /\ above # {}
                     /\ LET j == CHOOSE k \in above : \A l \in above : l <= k
                        IN /\ Kind(out[j]) = "project"
                           /\ ObjId(out[j]) = project.parent_id
               /\ first_of_tree => Level(out[i]) = 1

====
